---- MODULE Spec2Model ----
(***************************************************************************)
(* tgBackup: the synchronization engine of main.go (autoSyncUser, the       *)
(* startup goroutine, the periodic goroutine), the storage layer of         *)
(* internal/database/database.go, the shared client of                      *)
(* internal/telegram/client.go and the API handlers (package api, in        *)
(* internal/models/models.go).                                              *)
(*                                                                          *)
(* Ten specifications share the module.                                     *)
(*   Spec      - the data view with one account logged in: the tables       *)
(*               messages, conversations and updates_state, the remote      *)
(*               account, one pass of autoSyncUser at a time (as the        *)
(*               periodic loop runs them) over a connection of the user's   *)
(*               own account, and the channel goroutine an incremental      *)
(*               pass leaves behind.                                        *)
(*   MultiSpec - the same with two accounts logged in.                      *)
(*   FaultSpec - the same with one account and a database whose INSERTs     *)
(*               can fail.                                                  *)
(*   PeerSpec  - the pass and the channel goroutine over dialogs of every   *)
(*               declared type and access hash.                             *)
(*   SyncSpec  - the data view with one account and the on-demand sync of   *)
(*               POST /sync next to the scheduled passes.                   *)
(*   ParseSpec - the message parser on every text and media.                *)
(*   TickSpec  - the periodic goroutine alone on the client, with a users   *)
(*               table whose read can fail.                                 *)
(*   SchedSpec - the control view: the goroutines that share the one        *)
(*               telegram.Client and the steps at which they touch it.      *)
(*   OverlapSpec - the data view with one account and the bootstrap pass    *)
(*               of the startup goroutine next to the scheduled passes.     *)
(*   TermSpec  - the passes, the channel goroutine and the periodic         *)
(*               goroutine under fair scheduling, every call returning.     *)
(***************************************************************************)
EXTENDS Integers, Sequences, FiniteSets, Bags, TLC

\* ------------------------------------------------------------------ bounds
\* Largest value of the remote platform's clock (message dates, state date).
MaxDate == 2
\* The remote platform's seq counter of an account (no modelled event moves it).
RemoteSeq == 1
\* Most messages the remote platform holds, all conversations together, when
\* one account is logged in (Spec) and when two are (MultiSpec).
MaxRemote == 3
MultiRemote == 2
\* messages.GetHistory limit of a scheduled pass and of the channel resync
\* (50 in main.go:69 and main.go:146), scaled to the number of messages.
HistoryLimit == 2
\* How many INSERTs of one loop over rows may fail, and most messages the
\* remote platform holds, where the database is let fail (FaultSpec).
MaxSaveErrors == 1
FaultRemote == 3
\* Most messages the remote platform holds where the peer resolution is run
\* on every input (PeerSpec).
PeerRemote == 1
\* messages.GetHistory limit of the on-demand sync (100 in models.go:456),
\* scaled to the number of messages, and most messages the remote platform
\* holds where the on-demand sync runs (SyncSpec).
SyncLimit == 3
SyncRemote == 2
\* messages.GetDialogs limit (100 in client.go:241), scaled to the number of
\* conversations.
DialogLimit == 2
\* Most attributes of a document, where the message parser is run on every
\* input (ParseSpec).
MaxAttributes == 2
\* How many cancelled client.Run goroutines may be still returning.
MaxDying == 1
\* How many requests the API serves (POST /sync, POST /auth/login).
MaxRequests == 1
\* Most messages the remote platform holds where two passes of one user
\* overlap (OverlapSpec).
OverlapRemote == 1
\* Most messages the remote platform holds where termination is examined
\* (TermSpec).
TermRemote == 1

\* ------------------------------------------------------------- vocabulary
\* Telegram accounts; a user's id is the account's id.
Users == {"A", "B"}

\* Conversation ids: every account has one individual dialog and is a member
\* of the one broadcast channel. Some accounts are also members of one basic
\* group, which holds no messages.
PrivConv == "peer"
ChanConv == "chan"
ChatConv == "chat"
Convs == {PrivConv, ChanConv}

\* models.Conversation.Type as parseDialog sets it.
ConvType(c) ==
    CASE c = ChanConv -> "channel"
      [] c = ChatConv -> "group"
      [] OTHER -> "user"

\* models.Conversation.AccessHash as parseDialog sets it: the decimal text of
\* the access hash, which the platform issues per account.
AccessHashOf(a, c) == <<"hash", a, c>>

\* The empty text: no access hash.
NoHash == <<>>

\* A text that is not empty and not a decimal number.
JunkHash == <<"junk">>

\* The all-zero updates state.
ZeroState == [pts |-> 0, qts |-> 0, date |-> 0, seq |-> 0]

VARIABLES
    \* ---- remote platform (Spec)
    now,            \* the platform's clock, in seconds
    priv,           \* priv[a]: dates of the messages of a's individual dialog, by id
    chan,           \* dates of the channel's messages, by id
    \* ---- storage (Spec)
    updates_state,  \* table updates_state: user_id -> (pts, qts, date, seq)
    messages,       \* table messages: a bag of rows
    conversations,  \* table conversations: id -> row
    \* ---- tasks (Spec)
    pass,           \* the SyncEngine pass in progress (autoSyncUser's frame)
    resync,         \* resync[u]: the channel goroutine autoSyncUser(u) spawned
    last,           \* what the last step did (history of the run, for the properties)
    \* ---- the shared telegram.Client (SchedSpec)
    client,         \* isConnected, cancel # nil, appID
    runner,         \* the client.Run goroutine of the current context
    dying,          \* cancelled client.Run goroutines that have not returned yet
    inConnect,      \* the tasks that are inside Client.Connect
    authAcct,       \* the account sessions/session_<appID>.json is authorized as
    \* ---- storage, as far as the scheduler reads it (SchedSpec)
    active,         \* users.is_active
    synced,         \* synced[u]: u's updates_state row is nonzero
    chanOwner,      \* conversations.user_id of the channel's row
    saved,          \* the rows the last step saved: under which user_id, fetched as which account
    \* ---- goroutines (SchedSpec)
    tick,           \* the periodic goroutine
    startup,        \* the startup goroutine
    api,            \* the API request being served (POST /sync, POST /auth/login)
    chanTask,       \* chanTask[u]: the channel goroutine of autoSyncUser(u)
    requests,       \* how many API requests were served
    tickLog         \* what the current tick did (history of the run)

dataVars == <<now, priv, chan, updates_state, messages, conversations,
              pass, resync, last>>

schedVars == <<client, runner, dying, inConnect, authAcct, active, synced,
               chanOwner, saved, tick, startup, api, chanTask, tickLog, requests>>

vars == <<dataVars, schedVars>>

\* ------------------------------------------------------- remote platform
\* The messages of conversation c as account a sees them: dates by message id.
RemoteMsgs(a, c) ==
    CASE c = ChanConv -> chan
      [] c = ChatConv -> <<>>
      [] OTHER -> priv[a]

\* tg.Message.Media = nil.
NoMedia == [kind |-> "none", attributes |-> <<>>]

\* A raw tg.Message of conversation c: id, date, peer, text and media. A text
\* is a sequence of pieces, the empty text the empty sequence.
RawMessage(a, c, i) ==
    [id |-> i, date |-> RemoteMsgs(a, c)[i], peer |-> c,
     text |-> IF c = ChanConv THEN <<"chan", i>> ELSE <<a, i>>, media |-> NoMedia]

\* The number of messages the platform holds.
RECURSIVE SumLen(_)
SumLen(S) == IF S = {} THEN 0 ELSE LET a == CHOOSE x \in S : TRUE IN Len(priv[a]) + SumLen(S \ {a})
RemoteCount == Len(chan) + SumLen(Users)

\* The platform's pts of account a: one event per message of the individual
\* dialog (channel messages do not move the account's pts).
RemotePts(a) == Len(priv[a])

\* updates.getState of account a.
RemoteState(a) == [pts |-> RemotePts(a), qts |-> 0, date |-> now, seq |-> RemoteSeq]

\* messages.getHistory without OffsetID: the newest `limit` messages of the
\* peer, newest first.
MessagesGetHistory(a, c, limit) ==
    LET n == Len(RemoteMsgs(a, c))
        k == IF n < limit THEN n ELSE limit
    IN  [j \in 1..k |-> RawMessage(a, c, n + 1 - j)]

\* updates.getDifference(pts, date, qts) of account a: the answers the
\* platform can give. "difference" carries everything after pts and the
\* current state, "slice" a prefix and an intermediate state, "empty" only a
\* date and seq, "tooLong" no state at all; a request with pts = 0 is refused
\* (PERSISTENT_TIMESTAMP_EMPTY, main.go:100); a transport failure is "error".
\* An "empty" answer with date 0 is the degenerate one main.go:113 guards.
UpdatesGetDifference(a, pts) ==
    LET cur == RemoteState(a)
        msgs(from, to) == [j \in 1..(to - from) |-> RawMessage(a, PrivConv, from + j)]
    IN  {[kind |-> "error"]}
        \cup (IF pts = 0 THEN {}
              ELSE {[kind |-> "tooLong"],
                    [kind |-> "empty", date |-> 0, seq |-> 0]})
        \cup (IF pts > 0 /\ pts >= cur.pts
                 THEN {[kind |-> "empty", date |-> cur.date, seq |-> cur.seq]}
                 ELSE {})
        \cup (IF pts > 0 /\ pts < cur.pts
                 THEN {[kind |-> "difference", new |-> msgs(pts, cur.pts), state |-> cur]}
                      \cup {[kind |-> "slice", new |-> msgs(pts, k),
                             state |-> [cur EXCEPT !.pts = k]] : k \in (pts + 1)..(cur.pts - 1)}
                 ELSE {})

\* ------------------------------------------------------------ telegram.Client
\* client.go:511-513 and the like: a placeholder takes the place of an empty
\* content only.
OrPlaceholder(content, placeholder) ==
    IF content = <<>> THEN <<placeholder>> ELSE content

\* client.go:520-556, one turn of the loop over doc.Attributes: acc holds
\* messageType, content and mediaName.
DocumentAttribute(acc, a) ==
    CASE a.attr = "video" ->
           [acc EXCEPT !.messageType = "video", !.content = OrPlaceholder(@, "[Video]")]
      [] a.attr = "audio" ->
           [acc EXCEPT !.messageType = "audio", !.content = OrPlaceholder(@, "[Audio]"),
                       !.mediaName = IF a.name # <<>> THEN a.name ELSE @]
      [] a.attr = "filename" -> [acc EXCEPT !.mediaName = a.name]
      [] a.attr = "imageSize" ->
           IF acc.messageType = "text"
             THEN [acc EXCEPT !.messageType = "image", !.content = OrPlaceholder(@, "[Image]")]
             ELSE acc
      [] a.attr = "animated" ->
           [acc EXCEPT !.messageType = "gif", !.content = OrPlaceholder(@, "[GIF]")]
      [] a.attr = "sticker" ->
           [acc EXCEPT !.messageType = "sticker", !.content = OrPlaceholder(@, "[Sticker]")]
      [] OTHER -> acc

\* client.go:520: the loop over doc.Attributes, in their order.
RECURSIVE DocumentAttributes(_, _)
DocumentAttributes(acc, attrs) ==
    IF attrs = <<>> THEN acc
    ELSE DocumentAttributes(DocumentAttribute(acc, Head(attrs)), Tail(attrs))

\* client.go:505-594, the switch on msg.Media: messageType, content and
\* mediaName after it. A document without a type of its own is a "document";
\* a document without a name gets the name "<messageType>.file".
ParseMedia(text, media) ==
    LET start == [messageType |-> "text", content |-> text, mediaName |-> <<>>]
    IN  CASE media.kind = "photo" ->
               [start EXCEPT !.messageType = "photo", !.content = OrPlaceholder(@, "[Photo]")]
          [] media.kind = "document" ->
               LET seen == DocumentAttributes(start, media.attributes)
                   typed == IF seen.messageType = "text"
                              THEN [seen EXCEPT !.messageType = "document",
                                                !.content = OrPlaceholder(@, "[Document]")]
                              ELSE seen
               IN  IF typed.mediaName = <<>>
                     THEN [typed EXCEPT !.mediaName = <<typed.messageType, ".", "file">>]
                     ELSE typed
          [] media.kind = "webpage" -> [start EXCEPT !.content = OrPlaceholder(@, "[Webpage]")]
          [] media.kind = "contact" ->
               [start EXCEPT !.messageType = "contact", !.content = OrPlaceholder(@, "[Contact]")]
          [] media.kind = "geo" ->
               [start EXCEPT !.messageType = "location", !.content = OrPlaceholder(@, "[Location]")]
          [] media.kind = "poll" ->
               [start EXCEPT !.messageType = "poll", !.content = OrPlaceholder(@, "[Poll]")]
          [] OTHER -> start

\* A parser that never adds the media name.
KeepContent(content, mediaName) == content

\* client.go:620-623: the media name is added to a content that is not empty,
\* after a line break and the folder sign (the piece "file: ").
AppendMediaName(content, mediaName) ==
    IF mediaName # <<>> /\ content # <<>>
      THEN content \o <<"\n", "file: ">> \o mediaName
      ELSE content

\* Client.parseMessageWithUsers: MessageID, Content, MessageType and Timestamp
\* are made from the raw message, UserID and ConversationID are left zero for
\* the caller.
parseMessageWithUsers(raw) ==
    LET m == ParseMedia(raw.text, raw.media)
    IN  [user_id |-> "", conversation_id |-> "", message_id |-> raw.id,
         content |-> AppendMediaName(m.content, m.mediaName),
         message_type |-> m.messageType, timestamp |-> raw.date]

\* Client.parseMessagesResponse: every message parsed, ConversationID = peerID.
parseMessagesResponse(raws, peerID) ==
    [j \in DOMAIN raws |-> [parseMessageWithUsers(raws[j]) EXCEPT !.conversation_id = peerID]]

\* strconv.ParseInt(accessHash, 10, 64): the hash of a decimal text, an error
\* for the empty text and for any other text.
ParseInt(s) ==
    IF Len(s) = 3 /\ s[1] = "hash" THEN [ok |-> TRUE, val |-> s]
    ELSE [ok |-> FALSE, val |-> NoHash]

\* A peer resolution that takes a group for a plain chat whatever it carries.
ResolvePeerGroupAsChat(convType, accessHash) ==
    LET hash == ParseInt(accessHash)
    IN  CASE convType \in {"user", "bot"} ->
               [style |-> "user", hash |-> IF accessHash # NoHash /\ hash.ok THEN hash.val ELSE NoHash]
          [] convType = "channel" ->
               IF accessHash # NoHash /\ hash.ok
                 THEN [style |-> "channel", hash |-> hash.val]
                 ELSE [style |-> "error", hash |-> NoHash]
          [] convType = "group" -> [style |-> "chat", hash |-> NoHash]
          [] OTHER -> [style |-> "fallback", hash |-> NoHash]

\* Client.GetMessagesWithConvInfo, the switch on convType (client.go:378-413):
\* the tg.InputPeer the call is made with. "user" is InputPeerUser, "channel"
\* InputPeerChannel, "chat" InputPeerChat; "error" is the return before any
\* request, "fallback" the hand-over to getMessagesWithFallback.
ResolvePeer(convType, accessHash) ==
    LET hash == ParseInt(accessHash)
    IN  CASE convType \in {"user", "bot"} ->
               [style |-> "user", hash |-> IF accessHash # NoHash /\ hash.ok THEN hash.val ELSE NoHash]
          [] convType = "channel" ->
               IF accessHash # NoHash /\ hash.ok
                 THEN [style |-> "channel", hash |-> hash.val]
                 ELSE [style |-> "error", hash |-> NoHash]
          [] convType = "group" ->
               IF accessHash # NoHash
                 THEN IF hash.ok THEN [style |-> "channel", hash |-> hash.val]
                                 ELSE [style |-> "error", hash |-> NoHash]
                 ELSE [style |-> "chat", hash |-> NoHash]
          [] OTHER -> [style |-> "fallback", hash |-> NoHash]

\* The platform's answer to messages.getHistory of account a on a peer: the
\* individual dialog is reached by a user peer, the channel by a channel peer
\* that carries the hash issued to a, the basic group by a chat peer.
PeerAccepted(a, peerID, peer) ==
    \/ peer.style = "user" /\ ConvType(peerID) = "user"
    \/ peer.style = "channel" /\ ConvType(peerID) = "channel"
                              /\ peer.hash = AccessHashOf(a, peerID)
    \/ peer.style = "chat" /\ ConvType(peerID) = "group"

\* A fallback that tries the chat peer before the other two.
FallbackPeersChatFirst ==
    <<[style |-> "chat", hash |-> NoHash], [style |-> "user", hash |-> NoHash],
      [style |-> "channel", hash |-> NoHash]>>

\* Client.getMessagesWithFallback: the peer is tried as a user, then as a
\* channel, then as a chat, each without a hash, until a request succeeds.
FallbackPeers ==
    <<[style |-> "user", hash |-> NoHash], [style |-> "channel", hash |-> NoHash],
      [style |-> "chat", hash |-> NoHash]>>

\* nets[j] tells whether the transport delivers the j-th request; tried is
\* the peers the requests were made with, in order.
getMessagesWithFallback(a, peerID, limit, nets) ==
    LET served(j) == nets[j] /\ PeerAccepted(a, peerID, FallbackPeers[j])
        history == parseMessagesResponse(MessagesGetHistory(a, peerID, limit), peerID)
        styles(n) == [j \in 1..n |-> FallbackPeers[j].style]
    IN  IF served(1)
          THEN [ok |-> TRUE, msgs |-> history, calls |-> 1, tried |-> styles(1)]
          ELSE IF served(2)
            THEN [ok |-> TRUE, msgs |-> history, calls |-> 2, tried |-> styles(2)]
            ELSE IF served(3)
              THEN [ok |-> TRUE, msgs |-> history, calls |-> 3, tried |-> styles(3)]
              ELSE [ok |-> FALSE, msgs |-> <<>>, calls |-> 3, tried |-> styles(3)]

\* Client.GetMessagesWithConvInfo as account a on a connected client: the peer
\* is built from the declared type and access hash; an unusable hash fails
\* before any request; a request fails when the transport does not deliver
\* it or the platform does not accept the peer. calls is the number of
\* requests made.
GetMessagesWithConvInfo(a, peerID, limit, convType, accessHash, nets) ==
    LET peer == ResolvePeer(convType, accessHash)
    IN  CASE peer.style = "error" ->
               [ok |-> FALSE, msgs |-> <<>>, calls |-> 0, tried |-> <<>>]
          [] peer.style = "fallback" -> getMessagesWithFallback(a, peerID, limit, nets)
          [] OTHER ->
               IF nets[1] /\ PeerAccepted(a, peerID, peer)
                 THEN [ok |-> TRUE,
                       msgs |-> parseMessagesResponse(MessagesGetHistory(a, peerID, limit), peerID),
                       calls |-> 1, tried |-> <<peer.style>>]
                 ELSE [ok |-> FALSE, msgs |-> <<>>, calls |-> 1, tried |-> <<peer.style>>]

\* Client.GetUpdates: the answer of updates.getDifference turned into one
\* tg.UpdatesDifference. A slice gives its intermediate state; an empty answer
\* gives the state {Pts 0, Qts 0, Date u.Date, Seq 0}; anything else is an error.
GetUpdates(resp) ==
    CASE resp.kind = "difference" ->
            [ok |-> TRUE, new |-> resp.new, state |-> resp.state]
      [] resp.kind = "slice" ->
            [ok |-> TRUE, new |-> resp.new, state |-> resp.state]
      [] resp.kind = "empty" ->
            [ok |-> TRUE, new |-> <<>>,
             state |-> [pts |-> 0, qts |-> 0, date |-> resp.date, seq |-> 0]]
      [] OTHER ->
            [ok |-> FALSE, new |-> <<>>, state |-> ZeroState]

\* Client.ParseUpdatesMessages: every new message parsed, UserID = userID,
\* ConversationID taken from the message's peer.
ParseUpdatesMessages(updates, userID) ==
    [j \in DOMAIN updates.new |->
        [parseMessageWithUsers(updates.new[j]) EXCEPT
            !.user_id = userID, !.conversation_id = updates.new[j].peer]]

\* The conversations account a has on the platform, in the order of
\* messages.getDialogs: B is the account that is a member of the basic group.
RemoteDialogs(a) ==
    IF a = "B" THEN <<PrivConv, ChanConv, ChatConv>> ELSE <<PrivConv, ChanConv>>

\* messages.getDialogs with OffsetDate 0, OffsetID 0 and a limit: the first
\* `limit` dialogs of the account.
MessagesGetDialogs(a, limit) ==
    LET all == RemoteDialogs(a)
    IN  SubSeq(all, 1, IF Len(all) < limit THEN Len(all) ELSE limit)

\* Client.parseDialog: the conversation of a dialog; a basic group has no
\* access hash (LastTime = time.Now() is not kept).
parseDialog(a, c) ==
    [id |-> c, user_id |-> "", type |-> ConvType(c),
     access_hash |-> IF c = ChatConv THEN NoHash ELSE AccessHashOf(a, c)]

\* Client.GetDialogs as account a: one request of DialogLimit dialogs, each
\* parsed.
GetDialogs(a) ==
    LET dialogs == MessagesGetDialogs(a, DialogLimit)
    IN  [j \in DOMAIN dialogs |-> parseDialog(a, dialogs[j])]

\* ------------------------------------------------------------------ database
\* The key of a messages row: UNIQUE(user_id, conversation_id, message_id).
MsgKey(r) == <<r.user_id, r.conversation_id, r.message_id>>

\* DB.SaveMessage without the conflict clause: a plain INSERT.
SaveMessagePlainInsert(tbl, msg) == tbl (+) SetToBag({msg})

\* DB.SaveMessage: INSERT OR REPLACE INTO messages. Every row with msg's key
\* is deleted, then msg is inserted. (The surrogate id and created_at, which
\* no sync path reads, are not kept.)
SaveMessage(tbl, msg) ==
    LET keep == {r \in BagToSet(tbl) : MsgKey(r) # MsgKey(msg)}
    IN  [r \in keep |-> tbl[r]] (+) SetToBag({msg})

\* A sequence of DB.SaveMessage calls, in order.
RECURSIVE SaveMessages(_, _)
SaveMessages(tbl, msgs) ==
    IF msgs = <<>> THEN tbl
    ELSE SaveMessages(SaveMessage(tbl, Head(msgs)), Tail(msgs))

\* DB.SaveConversation: INSERT OR REPLACE INTO conversations, PRIMARY KEY id.
SaveConversation(tbl, conv) == {r \in tbl : r.id # conv.id} \cup {conv}

RECURSIVE SaveConversations(_, _)
SaveConversations(tbl, cs) ==
    IF cs = <<>> THEN tbl
    ELSE SaveConversations(SaveConversation(tbl, Head(cs)), Tail(cs))

\* The INSERTs that fail in one loop over rows: at most k of them.
SaveErrors(ids, k) == {S \in SUBSET ids : Cardinality(S) <= k}

\* A loop that ends at the first failed INSERT.
OnSaveErrorStop(rest) == <<>>

\* main.go:55-57, 76-78, 107-111, 162-166: a failed save is logged; the loop
\* goes on with the rows that are left.
OnSaveError(rest) == rest

\* The loops over DB.SaveMessage: the rows in order, those of bad fail.
RECURSIVE SaveEach(_, _, _)
SaveEach(tbl, msgs, bad) ==
    IF msgs = <<>> THEN tbl
    ELSE IF Head(msgs).message_id \in bad
      THEN SaveEach(tbl, OnSaveError(Tail(msgs)), bad)
      ELSE SaveEach(SaveMessage(tbl, Head(msgs)), Tail(msgs), bad)

\* The loop over DB.SaveConversation: the dialogs in order, those of bad fail.
RECURSIVE SaveEachConversation(_, _, _)
SaveEachConversation(tbl, cs, bad) ==
    IF cs = <<>> THEN tbl
    ELSE IF Head(cs).id \in bad
      THEN SaveEachConversation(tbl, OnSaveError(Tail(cs)), bad)
      ELSE SaveEachConversation(SaveConversation(tbl, Head(cs)), Tail(cs), bad)

\* DB.GetConversationsByUserID: the rows of one user.
GetConversationsByUserID(tbl, userID) == {r \in tbl : r.user_id = userID}

\* DB.GetMessagesByUserAndConversation(userID, conversationID, 1, 0):
\* ORDER BY timestamp DESC LIMIT 1. The rows it can return: those of the
\* conversation whose timestamp is the largest (SQL leaves the order among
\* equal timestamps open).
GetMessagesByUserAndConversation(tbl, userID, conversationID) ==
    LET rows == {r \in BagToSet(tbl) :
                    r.user_id = userID /\ r.conversation_id = conversationID}
    IN  {r \in rows : \A q \in rows : q.timestamp <= r.timestamp}

\* A save without the user's key: every row takes the state.
SaveUpdatesStateEveryRow(tbl, userID, st) == [u \in DOMAIN tbl |-> st]

\* DB.SaveUpdatesState: INSERT OR REPLACE INTO updates_state, UNIQUE(user_id).
SaveUpdatesState(tbl, userID, st) == [tbl EXCEPT ![userID] = st]

\* DB.GetUpdatesState: the row of the user, zeros when there is none (a user
\* without a row is kept as the zero row: no reader can tell them apart).
GetUpdatesState(tbl, userID) == tbl[userID]

\* ------------------------------------------------------------ autoSyncUser
IdlePass == [pc |-> "idle"]
IdleResync == [pc |-> "idle"]

\* Stamps UserID on fetched messages (msg.UserID = userID).
WithUser(msgs, userID) == [j \in DOMAIN msgs |-> [msgs[j] EXCEPT !.user_id = userID]]

Range(f) == {f[j] : j \in DOMAIN f}

\* The outcomes of a remote request: served, a transport failure (network
\* error, timeout), or the platform rejecting the session's authorization.
RemoteErrors == {"none", "network", "auth"}

\* The transports a call of GetMessagesWithConvInfo can meet, one outcome for
\* each request it can make (three on the fallback path, one otherwise): err
\* is the outcome of the first request.
Transports(err, convType, accessHash) ==
    LET n == IF ResolvePeer(convType, accessHash).style = "fallback" THEN 3 ELSE 1
    IN  {nets \in [1..n -> BOOLEAN] : nets[1] = (err = "none")}

\* The error GetMessagesWithConvInfo returned, by cause: none, "resolve" when
\* no request was made, "peer" when the platform did not accept the peer,
\* else the failure of the request.
ErrorOf(got, err) ==
    IF got.ok THEN "none"
    ELSE IF got.calls = 0 THEN "resolve"
    ELSE IF err = "none" THEN "peer" ELSE err

\* A loop over the dialogs that ends after its first dialog.
HistoryLoopOnce(todo) == TRUE

\* main.go:60, for i, dialog := range dialogs: the loop ends after the last
\* dialog.
HistoryLoopDone(todo) == Tail(todo) = <<>>

\* main.go:39, the mode test on the stored state: initial full sync.
IsInitialSync(st) == st.pts = 0 /\ st.qts = 0 /\ st.date = 0

\* A state guard that lets every candidate through.
UpdateStateAlways(st) == TRUE

\* main.go:115, "Only update state if we have meaningful data".
UpdateStateGuard(st) == st.pts > 0 \/ st.date > 0

\* A watermark test that is off by one.
WatermarkFilterInclusive(offsetID, msg) == offsetID = 0 \/ msg.message_id >= offsetID

\* main.go:159, "Only save if this is a newer message or if we have no messages yet".
WatermarkFilter(offsetID, msg) == offsetID = 0 \/ msg.message_id > offsetID

\* A selection by the type alone.
IsChannelLikeByType(conv) == conv.type = "channel" \/ conv.type = "group"

\* main.go:132, the conversations the channel goroutine syncs.
IsChannelLike(conv) ==
    (conv.type = "channel" \/ conv.type = "group") /\ conv.access_hash # NoHash

\* main.go:136-143, the offsetID the channel goroutine can obtain: the
\* MessageID of the row GetMessagesByUserAndConversation returns first, 0 when
\* the query fails (dbOk false) or returns nothing.
OffsetIDs(tbl, userID, convID, dbOk) ==
    LET latest == GetMessagesByUserAndConversation(tbl, userID, convID)
    IN  IF ~dbOk \/ latest = {} THEN {0} ELSE {r.message_id : r \in latest}

\* For the history of the run: a step the properties do not look into.
NoteOther == [op |-> "other"]

\* For the history of the run: the step writes rows, and every one of them is
\* stored already (the step repeats an earlier one against unchanged data).
AlreadyStored(tbl, rows) == rows # {} /\ rows \subseteq BagToSet(tbl)

\* ------------------------------------------------------------------- Init
DataInit ==
    /\ now = 1
    /\ priv = [a \in Users |-> <<>>]
    /\ chan = <<>>
    /\ updates_state = [u \in Users |-> ZeroState]
    /\ messages = EmptyBag
    /\ conversations = {}
    /\ pass = IdlePass
    /\ resync = [u \in Users |-> IdleResync]
    /\ last = NoteOther

\* The tasks that share the one telegram.Client of main.go:25.
NoUser == "none"
IdleTick == [pc |-> "wait", todo |-> <<>>, cur |-> NoUser]
EmptyLog == [listed |-> {}, ran |-> {}, failed |-> {}, cut |-> {},
             aborted |-> FALSE, retried |-> FALSE]
NoSave == [by |-> "none"]
IdleApi == [pc |-> "idle", kind |-> "none", user |-> NoUser]

\* The installation has run before: account A logged in through POST
\* /auth/login and /auth/verify, and then account B, so that both users rows
\* are active, both have an active auth_sessions row, and the session file of
\* the application holds the key of B; nothing was synced yet. The process has
\* just started: telegram.NewClient() (client.go:32-36) is not connected, and
\* no goroutine has run.
SchedInit ==
    /\ client = [isConnected |-> FALSE, cancel |-> FALSE, appID |-> 0]
    /\ runner = "none"
    /\ dying = 0
    /\ inConnect = {}
    /\ authAcct = "B"
    /\ active = [u \in Users |-> TRUE]
    /\ synced = [u \in Users |-> FALSE]
    /\ chanOwner = NoUser
    /\ saved = NoSave
    /\ tick = IdleTick
    /\ startup = [pc |-> "init", user |-> NoUser]
    /\ api = IdleApi
    /\ chanTask = [u \in Users |-> [pc |-> "idle"]]
    /\ tickLog = EmptyLog
    /\ requests = 0

Init == DataInit /\ SchedInit

\* ------------------------------------------------------- remote platform
\* A message arrives in a's individual dialog; its date is the clock.
RemotePrivMessage(a, budget) ==
    /\ RemoteCount < budget
    /\ priv' = [priv EXCEPT ![a] = Append(@, now)]
    /\ last' = NoteOther
    /\ UNCHANGED <<now, chan, updates_state, messages, conversations, pass, resync, schedVars>>

\* A message is posted in the channel; its date is the clock.
RemoteChanMessage(budget) ==
    /\ RemoteCount < budget
    /\ chan' = Append(chan, now)
    /\ last' = NoteOther
    /\ UNCHANGED <<now, priv, updates_state, messages, conversations, pass, resync, schedVars>>

\* The platform's clock advances.
ClockTick ==
    /\ now < MaxDate
    /\ now' = now + 1
    /\ last' = NoteOther
    /\ UNCHANGED <<priv, chan, updates_state, messages, conversations, pass, resync, schedVars>>

\* ---------------------------------------------------------- bootstrap pass
\* main.go:28-58: autoSyncUser(u) reads the stored state (zeros when the read
\* fails), finds it zero, lists the dialogs and saves every one of them under
\* u; a failed SaveConversation is logged. A failed listing ends the pass.
BootDialogs(u, k) ==
    /\ pass.pc = "idle"
    /\ \E dbOk, netOk \in BOOLEAN :
        LET stored == IF dbOk THEN GetUpdatesState(updates_state, u) ELSE ZeroState
            dialogs == [j \in DOMAIN GetDialogs(u) |-> [GetDialogs(u)[j] EXCEPT !.user_id = u]]
        IN  /\ IsInitialSync(stored)
            /\ IF netOk
                 THEN \E bad \in SaveErrors({d.id : d \in Range(dialogs)}, k) :
                      /\ conversations' = SaveEachConversation(conversations, dialogs, bad)
                      /\ pass' = [pc |-> "history", user |-> u, todo |-> dialogs, seen |-> -1]
                      /\ last' = [op |-> "dialogs", user |-> u, ok |-> TRUE, failed |-> bad]
                 ELSE /\ UNCHANGED <<conversations, pass>>
                      /\ last' = [op |-> "dialogs", user |-> u, ok |-> FALSE, failed |-> {}]
    /\ UNCHANGED <<now, priv, chan, updates_state, messages, resync, schedVars>>

\* main.go:60-82: the history of the next dialog is fetched and every message
\* saved under u; a failed fetch skips the dialog, a failed SaveMessage is
\* logged. (seen: how many messages the individual dialog held when its
\* history was fetched, -1 while it was not.)
BootHistory(k) ==
    /\ pass.pc = "history"
    /\ \E err \in RemoteErrors :
        LET u == pass.user
            d == Head(pass.todo)
        IN  \E nets \in Transports(err, d.type, d.access_hash) :
        LET got == GetMessagesWithConvInfo(u, d.id, HistoryLimit, d.type, d.access_hash,
                                           nets)
            msgs == WithUser(got.msgs, u)
            seen == IF got.ok /\ d.id = PrivConv THEN Len(priv[u]) ELSE pass.seen
        IN  \E bad \in SaveErrors({m.message_id : m \in Range(msgs)}, k) :
            /\ messages' = SaveEach(messages, msgs, bad)
            /\ pass' = IF HistoryLoopDone(pass.todo)
                          THEN [pc |-> "state", user |-> u, seen |-> seen]
                          ELSE [pass EXCEPT !.todo = Tail(@), !.seen = seen]
            /\ last' = [op |-> "history", user |-> u, conv |-> d.id, ok |-> got.ok,
                        type |-> d.type, token |-> d.access_hash,
                        peer |-> ResolvePeer(d.type, d.access_hash).style,
                        err |-> ErrorOf(got, err), calls |-> got.calls,
                        tried |-> got.tried, nets |-> nets,
                        written |-> Range(msgs),
                        failed |-> {m \in Range(msgs) : m.message_id \in bad},
                        rerun |-> got.ok /\ AlreadyStored(messages, Range(msgs))]
    /\ UNCHANGED <<now, priv, chan, updates_state, conversations, resync, schedVars>>

\* main.go:84-92: the current state is fetched and saved; a failed GetState
\* leaves the stored state as it is.
BootState ==
    /\ pass.pc = "state"
    /\ \E netOk \in BOOLEAN :
        LET u == pass.user
        IN  /\ updates_state' = IF netOk
                                   THEN SaveUpdatesState(updates_state, u, RemoteState(u))
                                   ELSE updates_state
            /\ last' = [op |-> "state", user |-> u, ok |-> netOk, seen |-> pass.seen]
    /\ pass' = IdlePass
    /\ UNCHANGED <<now, priv, chan, messages, conversations, resync, schedVars>>

\* -------------------------------------------------------- incremental pass
\* A pass that starts the channel goroutine only after a difference it got.
AfterDiffOnlyOnSuccess(ok) == IF ok THEN [pc |-> "list"] ELSE IdleResync

\* main.go:97-102 and 123-124: a failed GetUpdates is logged ("falling back
\* to channel sync only"); the channel goroutine is started after either
\* branch.
AfterDiff(ok) == [pc |-> "list"]

\* main.go:94-181: autoSyncUser(u) finds a nonzero stored state, asks for the
\* difference, saves the new messages (a failed SaveMessage is logged), saves
\* the candidate state when the guard lets it through, and starts the channel
\* goroutine. (One channel goroutine at a time: an incremental pass waits for
\* the previous one.) The branch has no SaveConversation (convs: the
\* conversations whose row the step saved).
IncrementalPass(u, k) ==
    /\ pass.pc = "idle"
    /\ \A x \in Users : resync[x].pc = "idle"
    /\ LET stored == GetUpdatesState(updates_state, u)
       IN  /\ ~IsInitialSync(stored)
           /\ \E resp \in UpdatesGetDifference(u, stored.pts) :
               LET updates == GetUpdates(resp)
                   newMessages == ParseUpdatesMessages(updates, u)
               IN  \E bad \in SaveErrors({m.message_id : m \in Range(newMessages)}, k) :
                   /\ messages' = SaveEach(messages, newMessages, bad)
                   /\ updates_state' =
                        IF updates.ok /\ UpdateStateGuard(updates.state)
                          THEN SaveUpdatesState(updates_state, u, updates.state)
                          ELSE updates_state
                   /\ last' = [op |-> "incremental", user |-> u, kind |-> resp.kind,
                               ok |-> updates.ok, candidate |-> updates.state,
                               before |-> stored,
                               written |-> Range(newMessages),
                               failed |-> {m \in Range(newMessages) : m.message_id \in bad},
                               convs |-> {},
                               rerun |-> updates.ok /\ AlreadyStored(messages, Range(newMessages))]
                   /\ resync' = [resync EXCEPT ![u] = AfterDiff(updates.ok)]
    /\ UNCHANGED <<now, priv, chan, conversations, pass, schedVars>>

\* ------------------------------------------------------- channel goroutine
\* main.go:125-132: the goroutine lists u's conversations and keeps the
\* channel-like ones; a failed query ends it.
ResyncList(u) ==
    /\ resync[u].pc = "list"
    /\ \E dbOk \in BOOLEAN :
        LET todo == IF dbOk
                      THEN {c \in GetConversationsByUserID(conversations, u) : IsChannelLike(c)}
                      ELSE {}
        IN  /\ resync' = [resync EXCEPT ![u] =
                            IF todo = {} THEN IdleResync ELSE [pc |-> "read", todo |-> todo]]
            /\ last' = NoteOther
    /\ UNCHANGED <<now, priv, chan, updates_state, messages, conversations, pass, schedVars>>

\* main.go:135-143: the watermark of the next conversation is read.
ResyncRead(u) ==
    /\ resync[u].pc = "read"
    /\ \E conv \in resync[u].todo, dbOk \in BOOLEAN :
         \E offsetID \in OffsetIDs(messages, u, conv.id, dbOk) :
            /\ resync' = [resync EXCEPT ![u] =
                            [pc |-> "fetch", todo |-> resync[u].todo \ {conv},
                             conv |-> conv, offsetID |-> offsetID]]
            /\ last' = [op |-> "watermark", user |-> u, conv |-> conv.id, dbOk |-> dbOk,
                        offsetID |-> offsetID]
    /\ UNCHANGED <<now, priv, chan, updates_state, messages, conversations, pass, schedVars>>

\* main.go:145-176: the recent messages of the conversation are fetched and
\* those the watermark test lets through are saved; a failed fetch skips the
\* conversation, a failed SaveMessage is logged.
ResyncFetchSave(u, k) ==
    /\ resync[u].pc = "fetch"
    /\ \E netOk \in BOOLEAN :
        LET conv == resync[u].conv
            offsetID == resync[u].offsetID
            got == GetMessagesWithConvInfo(u, conv.id, HistoryLimit, conv.type,
                                           conv.access_hash, <<netOk>>)
            channelMessages == WithUser(got.msgs, u)
            toSave == SelectSeq(channelMessages, LAMBDA m : WatermarkFilter(offsetID, m))
        IN  \E bad \in SaveErrors({m.message_id : m \in Range(toSave)}, k) :
            /\ messages' = SaveEach(messages, toSave, bad)
            /\ last' = [op |-> "resync", user |-> u, conv |-> conv.id, ok |-> got.ok,
                        offsetID |-> offsetID,
                        fetched |-> {m.message_id : m \in Range(channelMessages)},
                        written |-> Range(toSave),
                        failed |-> {m \in Range(toSave) : m.message_id \in bad},
                        rerun |-> got.ok /\ AlreadyStored(messages, Range(toSave))]
    /\ resync' = [resync EXCEPT ![u] =
                    IF resync[u].todo = {} THEN IdleResync
                    ELSE [pc |-> "read", todo |-> resync[u].todo]]
    /\ UNCHANGED <<now, priv, chan, updates_state, conversations, pass, schedVars>>

\* The steps of an installation whose logged-in accounts are S, on a platform
\* that holds at most budget messages, with at most k failing INSERTs a loop,
\* while the platform's clock stands still.
PassNext(S, budget, k) ==
    \/ \E a \in S : RemotePrivMessage(a, budget)
    \/ RemoteChanMessage(budget)
    \/ \E u \in S : BootDialogs(u, k)
    \/ BootHistory(k)
    \/ BootState
    \/ \E u \in S : IncrementalPass(u, k)
    \/ \E u \in S : ResyncList(u)
    \/ \E u \in S : ResyncRead(u)
    \/ \E u \in S : ResyncFetchSave(u, k)

\* The same steps, and those of the clock.
DataNext(S, budget, k) == PassNext(S, budget, k) \/ ClockTick

\* One account logged in, a database that takes every row.
Next == DataNext({"A"}, MaxRemote, 0)

Spec == Init /\ [][Next]_vars

\* Two accounts logged in; the clock stands still.
MultiNext == PassNext(Users, MultiRemote, 0)

MultiSpec == Init /\ [][MultiNext]_vars

\* One account logged in, a database that can fail on a row; the clock
\* stands still.
FaultNext == PassNext({"A"}, FaultRemote, MaxSaveErrors)

FaultSpec == Init /\ [][FaultNext]_vars

\* The peer resolution on every input. autoSyncUser(A) has listed and saved
\* two dialogs (an individual dialog or a basic group, and the channel) and is
\* about to fetch their histories; their declared type and
\* access hash are any values GetMessagesWithConvInfo can be called with: a
\* type parseDialog writes or another text, and a hash that is empty, not a
\* number, or the one issued to A.
ConvTypes == {"user", "bot", "channel", "group", "unknown"}
Tokens(a, c) == {NoHash, JunkHash, AccessHashOf(a, c)}

PeerInit ==
    /\ SchedInit
    /\ now = 1
    /\ priv = [a \in Users |-> <<>>]
    /\ chan = <<>>
    /\ updates_state = [u \in Users |-> ZeroState]
    /\ messages = EmptyBag
    /\ resync = [u \in Users |-> IdleResync]
    /\ last = NoteOther
    /\ \E c1 \in {PrivConv, ChatConv}, t1, t2 \in ConvTypes,
          h1 \in Tokens("A", PrivConv), h2 \in Tokens("A", ChanConv) :
          LET dialogs == <<[id |-> c1, user_id |-> "A", type |-> t1, access_hash |-> h1],
                           [id |-> ChanConv, user_id |-> "A", type |-> t2, access_hash |-> h2]>>
          IN  /\ conversations = Range(dialogs)
              /\ pass = [pc |-> "history", user |-> "A", todo |-> dialogs, seen |-> -1]

PeerNext ==
    \/ RemotePrivMessage("A", PeerRemote)
    \/ RemoteChanMessage(PeerRemote)
    \/ BootHistory(0)
    \/ BootState
    \/ IncrementalPass("A", 0)
    \/ ResyncList("A")
    \/ ResyncRead("A")
    \/ ResyncFetchSave("A", 0)

PeerSpec == PeerInit /\ [][PeerNext]_vars

\* ------------------------------------------------------ the shared client
\* models.go:126, the application id of every login, and so of every
\* auth_sessions row.
DefaultAppID == 24133254

\* client.go:40, Connect's early return.
ConnectFast == client.isConnected /\ client.appID = DefaultAppID

\* client.go:38-92, Client.Connect by task t up to its sleep: unless it returns
\* early, it cancels the context of the previous client.Run goroutine, clears
\* isConnected, replaces the client and starts a new client.Run goroutine; when
\* the session directory cannot be made (fsOk false) it returns the error
\* before that.
Connect(t, fsOk) ==
    IF ConnectFast
      THEN UNCHANGED <<client, runner, dying, inConnect>>
      ELSE /\ dying' = IF client.cancel /\ runner # "none" THEN dying + 1 ELSE dying
           /\ dying' <= MaxDying
           /\ client' = [isConnected |-> FALSE, cancel |-> TRUE, appID |-> DefaultAppID]
           /\ runner' = IF fsOk THEN "starting" ELSE "none"
           /\ inConnect' = IF fsOk THEN inConnect \cup {t} ELSE inConnect

\* client.go:176-183, IsAuthenticated: false when not connected, else whether
\* users.getFullUser(self) succeeds, which it does for whatever account the
\* session file is authorized as.
IsAuthenticated(netOk) == client.isConnected /\ netOk /\ authAcct # NoUser

\* A user-info call that answers whatever the state of the client.
GetCurrentUserInfoUnchecked(netOk) == TRUE

\* client.go:185-216, GetCurrentUserInfo: an error when the client is not
\* connected, else the answer of users.getFullUser(self): the user the session
\* file is authorized as, or the request's error.
GetCurrentUserInfo(netOk) == client.isConnected /\ netOk /\ authAcct # NoUser

\* The isConnected test that opens GetDialogs, GetUpdates, GetState,
\* GetMessagesWithConvInfo and GetCurrentUserInfo, and the call's outcome.
CallOk(netOk) == client.isConnected /\ netOk

\* client.go:80-82: the connection is up; the goroutine publishes the API
\* handle and sets isConnected.
RunnerUp ==
    /\ runner = "starting"
    /\ runner' = "up"
    /\ client' = [client EXCEPT !.isConnected = TRUE]
    /\ saved' = NoSave
    /\ UNCHANGED <<dying, inConnect, authAcct, active, synced, chanOwner,
                   tick, startup, api, chanTask, tickLog, requests, dataVars>>

\* client.go:88-91: client.Run fails before the connection is up.
RunnerFail ==
    /\ runner = "starting"
    /\ runner' = "none"
    /\ client' = [client EXCEPT !.isConnected = FALSE]
    /\ saved' = NoSave
    /\ UNCHANGED <<dying, inConnect, authAcct, active, synced, chanOwner,
                   tick, startup, api, chanTask, tickLog, requests, dataVars>>

\* client.go:84-91: a cancelled client.Run goroutine notices the cancellation
\* and clears isConnected, whichever client is current by then.
RunnerDie ==
    /\ dying > 0
    /\ dying' = dying - 1
    /\ client' = [client EXCEPT !.isConnected = FALSE]
    /\ saved' = NoSave
    /\ UNCHANGED <<runner, inConnect, authAcct, active, synced, chanOwner,
                   tick, startup, api, chanTask, tickLog, requests, dataVars>>

\* --------------------------------------------------- autoSyncUser, by task
\* main.go:32-39 and 94: the branch the pass takes, read from the stored state
\* when it starts. (One channel goroutine at a time: an incremental pass waits
\* for the previous one.)
PassMode(u) == IF synced[u] THEN "incr" ELSE "boot"
MayStartPass(u) == synced[u] => \A x \in Users : chanTask[x].pc = "idle"
InPass(pc) == pc \in {"boot", "incr"}

\* main.go:39-181, the rest of autoSyncUser(u) called by task `by`: the calls
\* return and the rows are saved under u. The bootstrap branch saves the
\* dialogs and the state; the incremental branch starts the channel goroutine
\* and returns without waiting for it. Neither branch saves the users row:
\* its last_sync_time is the one the caller wrote before the call, which the
\* startup goroutine does (main.go:203, with LastSyncTime = time.Now() of
\* client.go:212) and the periodic goroutine does not (stamped: the users
\* whose last_sync_time was written for this pass). No statement of the
\* function looks at the context's cancellation (cut: the connection of a
\* periodic pass was cancelled while the pass ran).
AutoSyncReturn(by, u, mode, netOk) ==
    /\ saved' = IF CallOk(netOk)
                  THEN [by |-> by, user |-> u, acct |-> authAcct,
                        stamped |-> IF by = "startup" THEN {u} ELSE {},
                        cut |-> by = "tick" /\ u \in tickLog.cut]
                  ELSE NoSave
    /\ IF mode = "boot"
         THEN /\ synced' = [synced EXCEPT ![u] = @ \/ CallOk(netOk)]
              /\ chanOwner' = IF CallOk(netOk) THEN u ELSE chanOwner
              /\ UNCHANGED chanTask
         ELSE /\ chanTask' = [chanTask EXCEPT ![u] = [pc |-> "spawned"]]
              /\ UNCHANGED <<synced, chanOwner>>

\* main.go:124-146: the channel goroutine of autoSyncUser(u) lists u's
\* channel-like conversations and issues the history request of the one it
\* finds; it ends when the listing fails, finds none, or the client refuses.
ChanCall(u) ==
    /\ chanTask[u].pc = "spawned"
    /\ \E dbOk \in BOOLEAN :
         chanTask' = [chanTask EXCEPT ![u] =
                        IF dbOk /\ chanOwner = u /\ client.isConnected
                          THEN [@ EXCEPT !.pc = "calling"]
                          ELSE [pc |-> "idle"]]
    /\ saved' = NoSave
    /\ UNCHANGED <<client, runner, dying, inConnect, authAcct, active, synced,
                   chanOwner, tick, startup, api, tickLog, requests, dataVars>>

\* main.go:146-176: the request returns and the new messages are saved under u.
ChanReturn(u) ==
    /\ chanTask[u].pc = "calling"
    /\ \E netOk \in BOOLEAN :
         saved' = IF netOk THEN [by |-> "chan", user |-> u, acct |-> authAcct,
                                 stamped |-> {}]
                  ELSE NoSave
    /\ chanTask' = [chanTask EXCEPT ![u] = [pc |-> "idle"]]
    /\ UNCHANGED <<client, runner, dying, inConnect, authAcct, active, synced,
                   chanOwner, tick, startup, api, tickLog, requests, dataVars>>

\* For the history of the tick: a Connect that does not return early cancels
\* the context of the connection (client.go:44-47); when the periodic
\* goroutine is inside autoSyncUser at that moment, its user is noted in cut
\* until the pass returns.
CutPass ==
    IF ~ConnectFast /\ InPass(tick.pc)
      THEN [tickLog EXCEPT !.cut = @ \cup {tick.cur}]
      ELSE tickLog

\* ----------------------------------------------------- periodic goroutine
\* db.GetUsers returns every users row, newest update first: any order.
UserOrders ==
    {o \in [1..Cardinality(Users) -> Users] : \A i, j \in DOMAIN o : o[i] = o[j] => i = j}

\* A loop that gives up at the first failing user.
SkipRest(rest) == <<>>

\* main.go:236, 243, 249, 257: `continue`, on to the users that are left.
SkipUser(rest) == rest

\* A loop that stays on the user it has.
SameUsers(todo) == todo

\* main.go:234: `for _, user := range users`, the users after the one taken.
NextUsers(todo) == Tail(todo)

\* A loop that takes every user that was read.
AnyUser(u) == TRUE

\* main.go:234-237: `if !user.IsActive { continue }`, on the row as read.
IsActive(u) == active[u]

\* A ticker whose ticks are served wherever the goroutine is.
TickerAnytime(pc) == TRUE

\* main.go:224: `for range ticker.C`, the goroutine receives the next tick
\* when the body of the loop has returned.
TickerReady(pc) == pc = "wait"

\* A loop that ends when the users cannot be read.
ExitOnGetUsersError == [pc |-> "exited", todo |-> <<>>, cur |-> NoUser]

\* main.go:228-232: `continue`, back to waiting for the ticker.
OnGetUsersError == IdleTick

\* main.go:224-237: the ticker fires and the users are read; the loop will
\* pass over those read as inactive. A failed read (reads: the outcomes
\* db.GetUsers can have) ends the tick at once. (aborted: the last read
\* failed; retried: this tick is the one after a failed read.)
TickStart(reads) ==
    /\ TickerReady(tick.pc)
    /\ \E dbOk \in reads :
         IF dbOk
           THEN /\ \E o \in UserOrders :
                     tick' = [pc |-> "user", cur |-> NoUser,
                              todo |-> SelectSeq(o, IsActive)]
                /\ tickLog' = [listed |-> {u \in Users : active[u]}, ran |-> {},
                               failed |-> {}, cut |-> {}, aborted |-> FALSE,
                               retried |-> tickLog.aborted]
           ELSE /\ tick' = OnGetUsersError
                /\ tickLog' = [EmptyLog EXCEPT !.aborted = TRUE]
    /\ saved' = NoSave
    /\ UNCHANGED <<client, runner, dying, inConnect, authAcct, active, synced,
                   chanOwner, startup, api, chanTask, requests, dataVars>>

\* main.go:234-250: the loop takes the next user: the session is looked up and
\* Connect called with its application id. A failed lookup or a Connect error
\* skips the user. With no user left the tick is over.
TickUser ==
    /\ tick.pc = "user"
    /\ saved' = NoSave
    /\ IF tick.todo = <<>>
         THEN /\ tick' = IdleTick
              /\ tickLog' = EmptyLog
              /\ UNCHANGED <<client, runner, dying, inConnect>>
         ELSE LET user == Head(tick.todo)
                  rest == NextUsers(tick.todo)
                  skipped == [pc |-> "user", cur |-> user, todo |-> SkipUser(rest)]
                  failed == [tickLog EXCEPT !.failed = @ \cup {user}]
              IN  \E dbOk, fsOk \in BOOLEAN :
                    IF ~dbOk
                      THEN /\ tick' = skipped
                           /\ tickLog' = failed
                           /\ UNCHANGED <<client, runner, dying, inConnect>>
                      ELSE /\ Connect("tick", fsOk)
                           /\ IF ConnectFast \/ fsOk
                                THEN /\ tick' = [pc |-> IF ConnectFast THEN "probe"
                                                        ELSE "connecting",
                                                 cur |-> user, todo |-> rest]
                                     /\ UNCHANGED tickLog
                                ELSE /\ tick' = skipped
                                     /\ tickLog' = failed
    /\ UNCHANGED <<authAcct, active, synced, chanOwner, startup, api, chanTask,
                   requests, dataVars>>

\* client.go:95-97: Connect's sleep is over and it returns.
TickConnected ==
    /\ tick.pc = "connecting"
    /\ inConnect' = inConnect \ {"tick"}
    /\ tick' = [tick EXCEPT !.pc = "probe"]
    /\ saved' = NoSave
    /\ UNCHANGED <<client, runner, dying, authAcct, active, synced, chanOwner,
                   startup, api, chanTask, tickLog, requests, dataVars>>

\* main.go:252-261: the liveness check. A user that fails it is saved with
\* is_active false and skipped; for one that passes autoSyncUser is called and
\* issues its first request.
TickProbe ==
    /\ tick.pc = "probe"
    /\ saved' = NoSave
    /\ \E netOk \in BOOLEAN :
         IF IsAuthenticated(netOk)
           THEN /\ MayStartPass(tick.cur)
                /\ tick' = [tick EXCEPT !.pc = PassMode(tick.cur)]
                /\ UNCHANGED <<active, tickLog>>
           ELSE /\ active' = [active EXCEPT ![tick.cur] = FALSE]
                /\ tickLog' = [tickLog EXCEPT !.failed = @ \cup {tick.cur}]
                /\ tick' = [tick EXCEPT !.pc = "user", !.todo = SkipUser(@)]
    /\ UNCHANGED <<client, runner, dying, inConnect, authAcct, synced, chanOwner,
                   startup, api, chanTask, requests, dataVars>>

\* main.go:261-262: autoSyncUser returns, and the loop goes on.
TickPassEnd ==
    /\ InPass(tick.pc)
    /\ \E netOk \in BOOLEAN : AutoSyncReturn("tick", tick.cur, tick.pc, netOk)
    /\ tickLog' = [tickLog EXCEPT !.ran = @ \cup {tick.cur}, !.cut = {}]
    /\ tick' = [tick EXCEPT !.pc = "user"]
    /\ UNCHANGED <<client, runner, dying, inConnect, authAcct, active,
                   startup, api, requests, dataVars>>

\* ------------------------------------------------------ startup goroutine
\* main.go:185-194: the latest active session is read and Connect called with
\* its application id; without a session, or on a Connect error, the goroutine
\* ends.
StartupConnect ==
    /\ startup.pc = "init"
    /\ saved' = NoSave
    /\ \E dbOk, fsOk \in BOOLEAN :
         IF ~dbOk
           THEN /\ startup' = [startup EXCEPT !.pc = "done"]
                /\ UNCHANGED <<client, runner, dying, inConnect, tickLog>>
           ELSE /\ Connect("startup", fsOk)
                /\ tickLog' = CutPass
                /\ startup' = [startup EXCEPT !.pc =
                                 IF ConnectFast THEN "sleep"
                                 ELSE IF fsOk THEN "connecting" ELSE "done"]
    /\ UNCHANGED <<authAcct, active, synced, chanOwner, tick, api, chanTask,
                   requests, dataVars>>

\* client.go:95-97: Connect's sleep is over and it returns.
StartupConnected ==
    /\ startup.pc = "connecting"
    /\ inConnect' = inConnect \ {"startup"}
    /\ startup' = [startup EXCEPT !.pc = "sleep"]
    /\ saved' = NoSave
    /\ UNCHANGED <<client, runner, dying, authAcct, active, synced, chanOwner,
                   tick, api, chanTask, tickLog, requests, dataVars>>

\* main.go:196-213: after the sleep the current user is asked for; when the
\* answer comes the user is saved (active) and autoSyncUser called for the id
\* in the answer; else the goroutine ends.
StartupInfo ==
    /\ startup.pc = "sleep"
    /\ saved' = NoSave
    /\ \E netOk \in BOOLEAN :
         IF GetCurrentUserInfo(netOk)
           THEN /\ MayStartPass(authAcct)
                /\ active' = [active EXCEPT ![authAcct] = TRUE]
                /\ startup' = [pc |-> PassMode(authAcct), user |-> authAcct]
           ELSE /\ startup' = [startup EXCEPT !.pc = "done"]
                /\ UNCHANGED active
    /\ UNCHANGED <<client, runner, dying, inConnect, authAcct, synced, chanOwner,
                   tick, api, chanTask, tickLog, requests, dataVars>>

\* main.go:213-216: autoSyncUser returns and the goroutine ends.
StartupPassEnd ==
    /\ InPass(startup.pc)
    /\ \E netOk \in BOOLEAN : AutoSyncReturn("startup", startup.user, startup.pc, netOk)
    /\ startup' = [pc |-> "done", user |-> NoUser]
    /\ UNCHANGED <<client, runner, dying, inConnect, authAcct, active,
                   tick, api, tickLog, requests, dataVars>>

\* ----------------------------------------------------------- API handlers
\* models.go:395-426, POST /sync: an authenticated client goes straight to the
\* dialogs request; else the latest active session is read (a failed read
\* answers 401 and changes nothing) and Connect called with its application id.
ApiSync ==
    /\ api.pc = "idle"
    /\ requests < MaxRequests
    /\ requests' = requests + 1
    /\ saved' = NoSave
    /\ \E netOk, fsOk \in BOOLEAN :
         IF IsAuthenticated(netOk)
           THEN /\ api' = [pc |-> "pass", kind |-> "sync", user |-> NoUser]
                /\ UNCHANGED <<client, runner, dying, inConnect, tickLog>>
           ELSE /\ Connect("api", fsOk)
                /\ tickLog' = CutPass
                /\ api' = [pc |-> IF ConnectFast THEN "ready"
                                  ELSE IF fsOk THEN "connecting" ELSE "idle",
                           kind |-> IF ConnectFast \/ fsOk THEN "sync" ELSE "none",
                           user |-> NoUser]
    /\ UNCHANGED <<authAcct, active, synced, chanOwner, tick, startup, chanTask,
                   dataVars>>

\* models.go:116-134, POST /auth/login for account b: Connect with the default
\* application id.
ApiLogin(b) ==
    /\ api.pc = "idle"
    /\ requests < MaxRequests
    /\ requests' = requests + 1
    /\ saved' = NoSave
    /\ \E fsOk \in BOOLEAN :
         /\ Connect("api", fsOk)
         /\ tickLog' = CutPass
         /\ api' = IF ConnectFast THEN [pc |-> "ready", kind |-> "login", user |-> b]
                   ELSE IF fsOk THEN [pc |-> "connecting", kind |-> "login", user |-> b]
                   ELSE IdleApi
    /\ UNCHANGED <<authAcct, active, synced, chanOwner, tick, startup, chanTask,
                   dataVars>>

\* client.go:95-97: Connect's sleep is over and it returns.
ApiConnected ==
    /\ api.pc = "connecting"
    /\ inConnect' = inConnect \ {"api"}
    /\ api' = [api EXCEPT !.pc = "ready"]
    /\ saved' = NoSave
    /\ UNCHANGED <<client, runner, dying, authAcct, active, synced, chanOwner,
                   tick, startup, chanTask, tickLog, requests, dataVars>>

\* After the handler's sleep. models.go:418-429 (POST /sync): the liveness
\* check again, then the dialogs request, or 401. models.go:137-195 (POST
\* /auth/login): the code is requested, and the handler answers.
ApiReady ==
    /\ api.pc = "ready"
    /\ saved' = NoSave
    /\ \E netOk \in BOOLEAN :
         api' = IF api.kind = "sync"
                  THEN IF IsAuthenticated(netOk) THEN [api EXCEPT !.pc = "pass"] ELSE IdleApi
                  ELSE IF CallOk(netOk) THEN [api EXCEPT !.pc = "code"] ELSE IdleApi
    /\ UNCHANGED <<client, runner, dying, inConnect, authAcct, active, synced,
                   chanOwner, tick, startup, chanTask, tickLog, requests, dataVars>>

\* models.go:203-258, POST /auth/verify: when the sign-in is accepted the
\* session file is authorized as the account that logged in; when its user
\* info can be read the user is saved (active) and the post-login sync
\* started.
ApiVerify ==
    /\ api.pc = "code"
    /\ saved' = NoSave
    /\ \E netOk, infoOk \in BOOLEAN :
         IF CallOk(netOk)
           THEN /\ authAcct' = api.user
                /\ active' = IF infoOk THEN [active EXCEPT ![api.user] = TRUE] ELSE active
                /\ api' = IF infoOk THEN [api EXCEPT !.pc = "after"] ELSE IdleApi
           ELSE /\ api' = IdleApi
                /\ UNCHANGED <<authAcct, active>>
    /\ UNCHANGED <<client, runner, dying, inConnect, synced, chanOwner,
                   tick, startup, chanTask, tickLog, requests, dataVars>>

\* models.go:544-558, autoSyncAfterLogin: the liveness check, then the
\* dialogs request.
ApiAfterLogin ==
    /\ api.pc = "after"
    /\ saved' = NoSave
    /\ \E netOk \in BOOLEAN :
         api' = IF IsAuthenticated(netOk) THEN [api EXCEPT !.pc = "pass"] ELSE IdleApi
    /\ UNCHANGED <<client, runner, dying, inConnect, authAcct, active, synced,
                   chanOwner, tick, startup, chanTask, tickLog, requests, dataVars>>

\* models.go:429-470 and 554-587: the dialogs and the histories arrive and are
\* saved: by autoSyncAfterLogin under the user that logged in, by POST /sync
\* under the id GetCurrentUserInfo answers (and that user is saved, active),
\* or under 0 when it fails. (Both callers saved the users row with
\* LastSyncTime = time.Now() when they read the user info, models.go:228-233
\* and 440-441.)
ApiPassEnd ==
    /\ api.pc = "pass"
    /\ \E netOk, infoOk \in BOOLEAN :
         LET currentUserID == IF api.kind = "login" THEN api.user
                              ELSE IF infoOk THEN authAcct ELSE NoUser
         IN  IF CallOk(netOk)
               THEN /\ saved' = [by |-> "api", user |-> currentUserID, acct |-> authAcct,
                                 stamped |-> {currentUserID} \cap Users]
                    /\ chanOwner' = currentUserID
                    /\ active' = IF api.kind = "sync" /\ infoOk
                                   THEN [active EXCEPT ![authAcct] = TRUE] ELSE active
               ELSE /\ saved' = NoSave
                    /\ UNCHANGED <<chanOwner, active>>
    /\ api' = IdleApi
    /\ UNCHANGED <<client, runner, dying, inConnect, authAcct, synced,
                   tick, startup, chanTask, tickLog, requests, dataVars>>

\* The steps of the goroutines that share the client.
SchedNext ==
    \/ RunnerUp
    \/ RunnerFail
    \/ RunnerDie
    \/ TickStart({TRUE})
    \/ TickUser
    \/ TickConnected
    \/ TickProbe
    \/ TickPassEnd
    \/ StartupConnect
    \/ StartupConnected
    \/ StartupInfo
    \/ StartupPassEnd
    \/ \E u \in Users : ChanCall(u)
    \/ \E u \in Users : ChanReturn(u)
    \/ ApiSync
    \/ \E b \in Users : ApiLogin(b)
    \/ ApiConnected
    \/ ApiReady
    \/ ApiVerify
    \/ ApiAfterLogin
    \/ ApiPassEnd

SchedSpec == Init /\ [][SchedNext]_vars

\* ------------------------------------------------------------- properties
\* The rows the last step passed to DB.SaveMessage.
Written == IF last.op \in {"history", "incremental", "resync"} THEN last.written ELSE {}

\* C1: cursor monotonicity. In every step the stored pts and date of every
\* user do not decrease, unless the whole stored cursor becomes all-zero; this
\* for every kind of diff response, the "no changes" one included.
C1_CursorMonotone ==
    [][\A u \in Users :
          \/ updates_state'[u] = ZeroState
          \/ /\ updates_state'[u].pts >= updates_state[u].pts
             /\ updates_state'[u].date >= updates_state[u].date]_vars

\* C2: empty-state guard. After an incremental pass whose candidate cursor has
\* pts = 0 and date = 0 the stored cursor of the user is the one the pass
\* found, in all four fields; and whenever the pass changed the stored cursor,
\* the candidate's pts or date is nonzero.
C2_EmptyStateGuard ==
    (last.op = "incremental" /\ last.ok) =>
        /\ (last.candidate.pts = 0 /\ last.candidate.date = 0)
              => updates_state[last.user] = last.before
        /\ (updates_state[last.user] # last.before)
              => (/\ last.candidate.pts # 0 \/ last.candidate.date # 0
                  /\ updates_state[last.user] = last.candidate)

\* C2's case: a pass over a stored cursor with nonzero pts, date and seq got
\* the all-zero candidate, and the stored cursor is still there.
C2_Witness ==
    /\ last.op = "incremental" /\ last.ok
    /\ last.candidate = ZeroState
    /\ last.before.pts > 0 /\ last.before.date > 0 /\ last.before.seq > 0
    /\ updates_state[last.user] = last.before

\* Every key of the table is held by one row, once.
UniqueKeys(tbl) ==
    \A r \in DOMAIN tbl :
        /\ tbl[r] = 1
        /\ \A q \in DOMAIN tbl : MsgKey(q) = MsgKey(r) => q = r

\* C3: idempotence of message storage. After every step the messages table
\* holds at most one row per (user_id, conversation_id, message_id); and a
\* step (of a bootstrap pass, an incremental pass or the channel resync) that
\* saves only rows the table already holds leaves the table as it was.
C3_Idempotent ==
    [][/\ UniqueKeys(messages')
       /\ (Written' # {} /\ Written' \subseteq BagToSet(messages))
             => messages' = messages]_vars

\* C3's case: both users hold a row of the same conversation and message id,
\* and the last step saved rows that were all stored already.
C3_Witness ==
    /\ last.op \in {"history", "incremental", "resync"}
    /\ last.rerun
    /\ \E r, q \in BagToSet(messages) :
          /\ r.user_id # q.user_id
          /\ r.conversation_id = q.conversation_id
          /\ r.message_id = q.message_id
          /\ r \in last.written

\* C4: watermark filter. In the channel resync of one conversation with
\* watermark W, a fetched message m is passed to SaveMessage (and is then in
\* the table, unless its INSERT failed) if and only if W = 0 or m > W.
C4_WatermarkFilter ==
    (last.op = "resync" /\ last.ok) =>
        /\ \A m \in last.fetched :
              (m \in {r.message_id : r \in last.written})
                  <=> (last.offsetID = 0 \/ m > last.offsetID)
        /\ \A r \in last.written :
              /\ r \notin last.failed => r \in BagToSet(messages)
              /\ r.user_id = last.user /\ r.conversation_id = last.conv
              /\ r.message_id \in last.fetched

\* C4's case: a resync with W > 0 fetched a message above W, which it saved,
\* and a message not above W, which it did not.
C4_Witness ==
    /\ last.op = "resync" /\ last.ok
    /\ last.offsetID > 0
    /\ \E m \in last.fetched : m > last.offsetID /\ m \in {r.message_id : r \in last.written}
    /\ \E m \in last.fetched : m <= last.offsetID /\ m \notin {r.message_id : r \in last.written}

\* The largest message_id stored for (user, conversation), 0 when none is.
MaxStoredID(tbl, userID, convID) ==
    LET ids == {r.message_id : r \in {q \in BagToSet(tbl) :
                    q.user_id = userID /\ q.conversation_id = convID}}
    IN  IF ids = {} THEN 0 ELSE CHOOSE m \in ids : \A k \in ids : k <= m

\* C5: watermark value. The watermark the resync obtains (by a query that
\* succeeded) is the largest message_id stored for the user and conversation,
\* 0 when none is stored, whatever the timestamps of the stored rows.
C5_WatermarkIsMax ==
    (last.op = "watermark" /\ last.dbOk) =>
        last.offsetID = MaxStoredID(messages, last.user, last.conv)

\* The current tick has taken every user it listed, and is about to end.
TickOver == tick.pc = "user" /\ tick.todo = <<>>

\* C6: per-user isolation within a tick. When a tick is over, every user it
\* listed as active either failed a check of its own (session lookup, Connect,
\* liveness) or had its pass started and run to completion in this tick;
\* whatever happened to the other users of the tick.
C6_TickIsolation ==
    TickOver =>
        /\ \A u \in tickLog.listed : u \in tickLog.ran \cup tickLog.failed
        /\ tickLog.ran \cap tickLog.failed = {}

\* C6's case: a tick is over in which one user failed a check and another
\* user's pass ran to completion.
C6_Witness ==
    /\ TickOver
    /\ \E a \in tickLog.failed : \E b \in tickLog.ran : a # b

\* The triggers whose pass has requests in flight on the shared connection:
\* the periodic tick, the startup recovery, and the API (on-demand sync and
\* post-login sync).
PassesInFlight ==
    {t \in {"tick", "startup", "api"} :
        \/ t = "tick" /\ InPass(tick.pc)
        \/ t = "startup" /\ InPass(startup.pc)
        \/ t = "api" /\ api.pc = "pass"}

\* C7: mutual exclusion of passes. At no time do two triggers have a pass in
\* flight on the shared connection.
C7_OnePassAtATime == Cardinality(PassesInFlight) <= 1

\* The scheduler is serving user u: the tick's loop is at u, or the startup
\* goroutine is inside autoSyncUser(u).
Serving(u) ==
    \/ tick.pc # "wait" /\ tick.cur = u
    \/ InPass(startup.pc) /\ startup.user = u

\* C8: the channel resync finishes inside the user's occupancy. While the
\* channel goroutine of user u has a request in flight, the scheduler is still
\* serving u: it has not moved on to the next user, nor ended the tick.
C8_ResyncInsideOccupancy ==
    \A u \in Users : chanTask[u].pc = "calling" => Serving(u)

\* The tasks that have a remote request in flight on the client.
InCall ==
    PassesInFlight \cup {<<"chan", u>> : u \in {x \in Users : chanTask[x].pc = "calling"}}

\* C9: serialized connection switching. At no time are two tasks inside
\* Connect, and no step of Connect cancels the running connection while
\* a task has a request in flight on it.
C9_ConnectSerialized ==
    [][/\ Cardinality(inConnect') <= 1
       /\ (dying' > dying) => InCall = {}]_vars

\* C10: connection identity during a pass. Rows that autoSyncUser(u) or its
\* channel goroutine saves under user_id u were fetched while the connection
\* was authenticated as u's own account.
C10_OwnAccount ==
    saved.by \in {"tick", "startup", "chan"} => saved.user = saved.acct

\* The step is one of autoSyncUser(b): of its bootstrap or incremental pass,
\* or of its channel goroutine.
StepOf(b) ==
    \/ pass.pc = "idle" /\ pass'.pc = "history" /\ pass'.user = b
    \/ pass.pc # "idle" /\ pass.user = b /\ pass' # pass
    \/ last'.op = "incremental" /\ last'.user = b /\ last' # last
    \/ resync'[b] # resync[b]

\* C11: per-user data isolation. A step of a sync pass of user b leaves every
\* conversations row and every messages row of another user a in place: it is
\* not removed, not overwritten and not given to another user, also when a and
\* b share a conversation identifier.
C11_DataIsolation ==
    [][\A a, b \in Users :
          (a # b /\ StepOf(b)) =>
              /\ GetConversationsByUserID(conversations, a) \subseteq conversations'
              /\ \A r \in BagToSet(messages) :
                    r.user_id = a => (r \in BagToSet(messages') /\ messages'[r] = messages[r])]_vars

\* C12: mode selection. A pass is a bootstrap pass exactly when the stored
\* cursor of its user is all-zero (pts, qts, date and seq), and an incremental
\* pass in every other case. (The listing step of a bootstrap pass leaves the
\* stored cursor as the pass found it.)
C12_ModeByCursor ==
    /\ last.op = "dialogs" => updates_state[last.user] = ZeroState
    /\ last.op = "incremental" => last.before # ZeroState

\* The last step was the end of a pass of autoSyncUser(last.user) that went
\* through all its phases: a bootstrap pass after its state step, or an
\* incremental pass.
PassEnded == last.op = "state" \/ last.op = "incremental"

\* C13: the watermark resync runs after every pass. When a pass of a user
\* ends, in bootstrap mode as well as in incremental mode, the channel resync
\* of that user has been started (it then visits each qualifying conversation).
C13_ResyncAfterEveryPass ==
    PassEnded => resync[last.user].pc = "list"

\* C14: bootstrap phase order. The listing step comes first and saves every
\* listed conversation before any history is fetched; the history steps take
\* the listed conversations one by one, save their messages and leave the
\* stored cursor alone; only after the last of them comes the state step,
\* which ends the pass and either leaves the stored cursor or writes the
\* remote state snapshot, all four fields at once. So the cursor is written at
\* most once in the pass.
C14_BootstrapOrder ==
    [][/\ (pass.pc = "idle" /\ pass'.pc = "history") =>
            /\ {d.id : d \in Range(pass'.todo)} = Convs
            /\ \A d \in Range(pass'.todo) : d.id \notin last'.failed => d \in conversations'
            /\ messages' = messages
            /\ updates_state' = updates_state
       /\ pass.pc = "history" => updates_state' = updates_state
       /\ (pass.pc = "history" /\ pass' # pass) =>
            /\ conversations' = conversations
            /\ last'.op = "history" /\ last'.conv = Head(pass.todo).id
            /\ (last'.written \ last'.failed) \subseteq BagToSet(messages')
            /\ IF Tail(pass.todo) = <<>>
                 THEN pass'.pc = "state"
                 ELSE pass'.pc = "history" /\ pass'.todo = Tail(pass.todo)
       /\ (pass.pc = "state" /\ pass' # pass) =>
            /\ pass'.pc = "idle"
            /\ messages' = messages /\ conversations' = conversations
            /\ \/ updates_state' = updates_state
               \/ updates_state' = [updates_state EXCEPT ![pass.user] = RemoteState(pass.user)]]_vars

\* C14's case: a bootstrap pass has just written the state snapshot as the
\* cursor of its user, whose two conversations and messages of both are
\* stored.
C14_Witness ==
    /\ last.op = "state" /\ last.ok
    /\ updates_state[last.user] = RemoteState(last.user)
    /\ updates_state[last.user].pts > 0
    /\ \A c \in Convs :
          /\ \E d \in GetConversationsByUserID(conversations, last.user) : d.id = c
          /\ \E r \in BagToSet(messages) : r.user_id = last.user /\ r.conversation_id = c

\* The messages table holds message i of u's individual dialog.
PrivStored(u, i) ==
    \E r \in BagToSet(messages) :
        r.user_id = u /\ r.conversation_id = PrivConv /\ r.message_id = i

\* C15: the stored cursor means "everything up to here has been ingested".
\* When a bootstrap pass ends by writing the cursor, every message that arrived
\* in the user's individual dialog after the pass fetched that dialog's history
\* is either stored already or still ahead of the stored cursor, so that the
\* next incremental pass asks for it.
C15_CursorCoversIngested ==
    (last.op = "state" /\ last.ok /\ last.seen >= 0) =>
        \A i \in (last.seen + 1)..Len(priv[last.user]) :
            PrivStored(last.user, i) \/ i > updates_state[last.user].pts

\* C16: an authorization failure ends the pass. A step of a pass whose remote
\* request the platform rejected for the session's authorization is the last
\* step of that pass: the conversations and steps that are left are not
\* attempted (and the failure goes to the scheduler, which marks the user
\* inactive).
C16_AuthFailureEndsPass ==
    [][(last'.op = "history" /\ last'.err = "auth") => pass'.pc = "idle"]_vars

\* C17: a transient error on the liveness probe only skips the user. A step
\* clears a user's is_active flag only when the platform rejects the session,
\* that is when the session is not authorized as any account; a network error,
\* a timeout or a connection that is not yet established leaves the flag set.
C17_TransientProbeKeepsActive ==
    [][\A u \in Users : (active[u] /\ ~active'[u]) => authAcct = NoUser]_vars

HashlessChannel(type, token) == type = "channel" /\ token = NoHash

SyncMessagesDialogs(a) ==
    /\ pass.pc = "idle"
    /\ \E netOk, infoOk \in BOOLEAN :
        LET currentUserID == IF infoOk THEN a ELSE ""
            dialogs == [j \in DOMAIN GetDialogs(a) |->
                          [GetDialogs(a)[j] EXCEPT !.user_id = currentUserID]]
        IN  IF netOk
              THEN /\ conversations' = SaveEachConversation(conversations, dialogs, {})
                   /\ pass' = [pc |-> "sync", user |-> currentUserID, todo |-> dialogs,
                               seen |-> -1]
                   /\ last' = [op |-> "syncDialogs", acct |-> a, user |-> currentUserID,
                               ok |-> TRUE]
              ELSE /\ UNCHANGED <<conversations, pass>>
                   /\ last' = [op |-> "syncDialogs", acct |-> a, user |-> "", ok |-> FALSE]
    /\ UNCHANGED <<now, priv, chan, updates_state, messages, resync, schedVars>>

\* models.go:453-470, the goroutine of SyncMessages: the newest messages of the
\* next dialog are fetched and saved under currentUserID; a failed fetch skips
\* the dialog. After the last dialog the goroutine ends.
SyncMessagesHistory(a) ==
    /\ pass.pc = "sync"
    /\ \E netOk \in BOOLEAN :
        LET dialog == Head(pass.todo)
            got == GetMessagesWithConvInfo(a, dialog.id, SyncLimit, dialog.type,
                                           dialog.access_hash, <<netOk, netOk, netOk>>)
            msgs == WithUser(got.msgs, pass.user)
            done == Tail(pass.todo) = <<>>
        IN  /\ messages' = SaveEach(messages, msgs, {})
            /\ pass' = IF done THEN IdlePass ELSE [pass EXCEPT !.todo = Tail(@)]
            /\ last' = [op |-> "sync", acct |-> a, user |-> pass.user, conv |-> dialog.id,
                        ok |-> got.ok, written |-> Range(msgs), done |-> done]
    /\ UNCHANGED <<now, priv, chan, updates_state, conversations, resync, schedVars>>

SyncNext ==
    \/ PassNext({"A"}, SyncRemote, 0)
    \/ SyncMessagesDialogs("A")
    \/ SyncMessagesHistory("A")

SyncSpec == Init /\ [][SyncNext]_vars

\* ------------------------------------------------------------------- C24
\* C24: the on-demand sync of a user makes one bootstrap-style pass: the
\* conversations are listed and upserted, up to SyncLimit most recent messages
\* of each conversation are fetched and upserted under that user's id, and
\* after the last conversation the remote state snapshot is stored as that
\* user's cursor.
C24_SyncNowPass ==
    (last.op = "sync" /\ last.done) =>
        /\ \A c \in Convs : \E r \in conversations : r.id = c /\ r.user_id = last.acct
        /\ \A r \in last.written : r.user_id = last.acct
        /\ GetUpdatesState(updates_state, last.acct) = RemoteState(last.acct)

\* ------------------------------------------------------------- ParseSpec
\* The message parser on every input: a text that is empty or not, and no
\* media, a media without attributes, or a document with up to MaxAttributes
\* attributes in any order.
Texts == {<<>>, <<"T">>}

DocumentAttributeKinds ==
    {[attr |-> a, name |-> <<>>] :
        a \in {"video", "audio", "imageSize", "animated", "sticker", "hasStickers"}}
    \cup {[attr |-> "audio", name |-> <<"Song">>], [attr |-> "filename", name |-> <<"F">>]}

Medias ==
    {NoMedia}
    \cup {[kind |-> k, attributes |-> <<>>] :
            k \in {"photo", "webpage", "contact", "geo", "poll", "documentEmpty", "dice"}}
    \cup {[kind |-> "document", attributes |-> s] :
            s \in UNION {[1..n -> DocumentAttributeKinds] : n \in 0..MaxAttributes}}

ParseInit ==
    /\ SchedInit
    /\ now = 1
    /\ priv = [a \in Users |-> <<>>]
    /\ chan = <<>>
    /\ updates_state = [u \in Users |-> ZeroState]
    /\ messages = EmptyBag
    /\ conversations = {}
    /\ pass = IdlePass
    /\ resync = [u \in Users |-> IdleResync]
    /\ \E t \in Texts, m \in Medias :
          last = [op |-> "raw",
                  raw |-> [id |-> 1, date |-> 1, peer |-> PrivConv, text |-> t, media |-> m]]

\* client.go:463-494, parseMessagesResponse on an answer of one message: the
\* message is parsed.
ParseMessage ==
    /\ last.op = "raw"
    /\ last' = [op |-> "parsed", raw |-> last.raw,
                msg |-> parseMessagesResponse(<<last.raw>>, last.raw.peer)[1]]
    /\ UNCHANGED <<now, priv, chan, updates_state, messages, conversations, pass,
                   resync, schedVars>>

ParseNext == ParseMessage

ParseSpec == ParseInit /\ [][ParseNext]_vars

\* ------------------------------------------------------------------- C22
\* C22: a raw message with empty text whose document carries a video
\* attribute, and no filename attribute, is parsed to the kind "video" with
\* the body exactly "[Video]".
C22_EmptyVideo ==
    (/\ last.op = "parsed"
     /\ last.raw.text = <<>>
     /\ last.raw.media.kind = "document"
     /\ last.raw.media.attributes = <<[attr |-> "video", name |-> <<>>]>>)
    => /\ last.msg.message_type = "video"
       /\ last.msg.content = <<"[Video]">>

\* ------------------------------------------------------------------- C23
\* C23: a raw message with a text T that is not empty whose document carries
\* only a filename attribute F is parsed to the kind "document" with a body
\* that is T, unchanged, followed by a suffix that contains F.
C23_CaptionedFile ==
    (/\ last.op = "parsed"
     /\ last.raw.text # <<>>
     /\ last.raw.media.kind = "document"
     /\ Len(last.raw.media.attributes) = 1
     /\ last.raw.media.attributes[1].attr = "filename")
    => LET T == last.raw.text
           F == last.raw.media.attributes[1].name
           body == last.msg.content
       IN  /\ last.msg.message_type = "document"
           /\ Len(body) > Len(T)
           /\ SubSeq(body, 1, Len(T)) = T
           /\ \E i \in (Len(T) + 1)..Len(body) :
                 i + Len(F) - 1 <= Len(body) /\ SubSeq(body, i, i + Len(F) - 1) = F

\* A captioned file has been parsed.
C23_Witness ==
    /\ last.op = "parsed"
    /\ last.raw.text = <<"T">>
    /\ last.raw.media = [kind |-> "document",
                         attributes |-> <<[attr |-> "filename", name |-> <<"F">>]>>]
    /\ last.msg.content = <<"T", "\n", "file: ", "F">>

\* ------------------------------------------------------------------- C21
\* C21: for a conversation of unknown type the history call is made with
\* individual-style addressing first, with channel-style addressing only if
\* the first call failed, and with chat-style addressing only if both failed;
\* no call follows the first one that succeeds, and the fetch fails only when
\* all three calls failed.
C21_FallbackOrder ==
    LET want == <<"user", "channel", "chat">>
        n == Len(last.tried)
        served(j) == /\ last.nets[j]
                     /\ PeerAccepted(last.user, last.conv, [style |-> want[j], hash |-> NoHash])
    IN  (last.op = "history" /\ last.peer = "fallback") =>
            /\ n \in 1..3
            /\ last.calls = n
            /\ \A j \in 1..n : last.tried[j] = want[j]
            /\ \A j \in 1..(n - 1) : ~served(j)
            /\ last.ok = served(n)
            /\ ~last.ok => n = 3

\* A conversation of unknown type is fetched by the third call, after the
\* first two failed.
C21_Witness ==
    /\ last.op = "history" /\ last.peer = "fallback"
    /\ last.ok /\ last.tried = <<"user", "channel", "chat">>


\* ------------------------------------------------------------------- C25
\* C25: the startup goroutine starts its pass only from the liveness probe
\* that follows Connect, made on a connected client whose session is
\* authorized; a probe that does not succeed ends the goroutine, which then
\* starts no pass and writes no conversation, message or cursor.
C25_StartupProbeGatesPass ==
    [][/\ (InPass(startup'.pc) /\ ~InPass(startup.pc)) =>
              /\ startup.pc = "sleep"
              /\ "startup" \notin inConnect
              /\ client.isConnected
              /\ authAcct # NoUser
              /\ startup'.user = authAcct
       /\ saved'.by = "startup" => InPass(startup.pc)
       /\ (startup.pc = "sleep" /\ ~client.isConnected) =>
              /\ ~InPass(startup'.pc)
              /\ saved'.by # "startup"
       /\ startup.pc = "done" => startup'.pc = "done" /\ saved'.by # "startup"]_vars

\* The startup pass, started after the probe, has saved its rows.
C25_Witness == saved.by = "startup" /\ startup.pc = "done"


\* ------------------------------------------------------------------- C26
\* C26: after every successful pass for a user (startup, periodic or
\* on-demand) that user's last-sync timestamp has been written for the pass.
C26_LastSyncStamped ==
    (saved.by \in {"tick", "startup", "api"} /\ saved.user \in Users)
        => saved.user \in saved.stamped


\* ------------------------------------------------------------------- C27
\* C27: a periodic pass during which the cancellation signal of its
\* connection fired (another Connect took the client) stops: it gets no
\* answer and saves no rows or cursor for its user over the connection that
\* replaced its own.
C27_CancelledPassStops ==
    saved.by = "tick" => ~saved.cut


\* -------------------------------------------------------------- TickSpec
\* The periodic goroutine alone on the client, with a users table whose read
\* can fail.
TickNext ==
    \/ RunnerUp
    \/ RunnerFail
    \/ RunnerDie
    \/ TickStart(BOOLEAN)
    \/ TickUser
    \/ TickConnected
    \/ TickProbe
    \/ TickPassEnd
    \/ \E u \in Users : ChanCall(u)
    \/ \E u \in Users : ChanReturn(u)

TickSpec == Init /\ [][TickNext]_vars

\* ------------------------------------------------------------------- C28
\* C28: a tick whose read of the users fails processes no user and changes
\* nothing: the periodic goroutine is back at waiting for the ticker; the
\* tick that follows reads the users again and goes through all the active
\* ones.
C28_FailedReadAbortsTick ==
    [][/\ (~tickLog.aborted /\ tickLog'.aborted) =>
              /\ tick' = IdleTick
              /\ tickLog'.listed = {} /\ tickLog'.ran = {} /\ tickLog'.failed = {}
              /\ saved' = NoSave
              /\ UNCHANGED <<client, runner, dying, inConnect, authAcct, active,
                             synced, chanOwner, chanTask>>
       /\ (tickLog.aborted /\ tick'.pc # "wait") =>
              /\ tick'.pc = "user"
              /\ tickLog'.retried
              /\ tickLog'.listed = {u \in Users : active[u]}
              /\ Range(tick'.todo) = tickLog'.listed
              /\ Len(tick'.todo) = Cardinality(tickLog'.listed)
       /\ tickLog'.aborted => tick'.pc = "wait"]_vars

\* The tick after a failed read has run a pass.
C28_Witness == tickLog.retried /\ tickLog.ran # {}


\* ------------------------------------------------------------------- C29
\* C29: a bootstrap pass lists every conversation the remote account has:
\* after the listing each of them is stored as a conversation of the user,
\* whatever their number.
C29_FullListing ==
    (last.op = "dialogs" /\ last.ok /\ last.failed = {}) =>
        \A c \in Range(RemoteDialogs(last.user)) :
            \E r \in conversations : r.id = c /\ r.user_id = last.user


\* ------------------------------------------------------------------- C30
\* C30: after an incremental pass that ingested a message of conversation C,
\* the conversation row of C of that user exists and was saved by that pass
\* (its last-message preview and time are those of the pass).
C30_ConversationRefreshed ==
    (last.op = "incremental") =>
        \A r \in last.written \ last.failed :
            /\ \E c \in conversations : c.id = r.conversation_id /\ c.user_id = last.user
            /\ r.conversation_id \in last.convs


\* ------------------------------------------------------------------- C31
\* C31: for a document message with empty text and any attributes in any
\* order, the bracket placeholder put in the body is the one of the final
\* kind of the message.
C31_PlaceholderOfKind ==
    LET placeholder(kind) ==
            CASE kind = "video" -> "[Video]"
              [] kind = "audio" -> "[Audio]"
              [] kind = "image" -> "[Image]"
              [] kind = "gif" -> "[GIF]"
              [] kind = "sticker" -> "[Sticker]"
              [] kind = "document" -> "[Document]"
              [] OTHER -> "[?]"
    IN  (/\ last.op = "parsed"
         /\ last.raw.text = <<>>
         /\ last.raw.media.kind = "document")
        => /\ last.msg.content # <<>>
           /\ Head(last.msg.content) = placeholder(last.msg.message_type)


\* ------------------------------------------------------------------- C32
\* C32: when the difference request of an incremental pass fails, the stored
\* cursor of the user is left as it was, the step writes no message, and the
\* channel resync of that user is started all the same.
C32_DiffFailureFallsBack ==
    [][(last'.op = "incremental" /\ last' # last /\ ~last'.ok) =>
            /\ updates_state' = updates_state
            /\ messages' = messages
            /\ last'.written = {}
            /\ resync[last'.user].pc = "idle"
            /\ resync'[last'.user].pc = "list"]_vars

\* An incremental pass whose difference request failed has started the
\* channel resync over a cursor that is not zero.
C32_Witness ==
    /\ last.op = "incremental" /\ ~last.ok /\ last.kind = "error"
    /\ ~IsInitialSync(GetUpdatesState(updates_state, last.user))
    /\ resync[last.user].pc = "list"


\* ------------------------------------------------------------------- C33
\* C33: a periodic tick connects, probes and syncs only users that are
\* flagged active. In every step that moves the periodic goroutine or changes
\* a flag: the users a tick sets out to visit are active, the user it
\* takes next is active, the user it is connecting, probing or syncing is
\* active, the rows it saves are an active user's; and no step of the tick
\* turns an inactive user's flag back to active.
C33_TickOnlyActiveUsers ==
    [][(tick' # tick \/ active' # active) =>
          /\ (tick.pc = "wait" /\ tick'.pc = "user") =>
                 \A u \in Range(tick'.todo) : active[u]
          /\ (tick.pc = "user" /\ tick.todo # <<>> /\ tick' # tick) =>
                 active[Head(tick.todo)]
          /\ tick'.pc \in {"connecting", "probe", "boot", "incr"} => active'[tick'.cur]
          /\ saved'.by = "tick" => active[saved'.user]
          /\ tick' # tick => \A u \in Users : active'[u] => active[u]]_vars

\* A tick has run a pass while a user it did not list is inactive.
C33_Witness ==
    \E u \in Users : ~active[u] /\ u \notin tickLog.listed /\ tickLog.ran # {}


\* =========================================================================
\* Termination. The data view and the scheduling view share no variable, so
\* their interleaving is examined one side at a time: either the passes and
\* the channel goroutine move while the scheduling side rests in its initial
\* state, or the periodic goroutine moves while the data side rests in its
\* initial state.
TermNext ==
    \/ SchedInit /\ PassNext({"A"}, TermRemote, 0)
    \/ DataInit /\ TickNext

\* main.go:60-92: a pass that has started goes on, every call it makes
\* returning.
TermPassStep == SchedInit /\ (BootHistory(0) \/ BootState)

\* main.go:124-176: the channel goroutine of u goes on.
TermResyncStep(u) == SchedInit /\ (ResyncList(u) \/ ResyncRead(u) \/ ResyncFetchSave(u, 0))

\* main.go:234-262: the user loop of a tick goes on; client.go:95-97: Connect's
\* sleep ends.
TermTickStep == DataInit /\ (TickUser \/ TickConnected \/ TickProbe \/ TickPassEnd)

\* Every goroutine that can take a step is scheduled in the end, and every
\* call returns; nothing makes the ticker fire or a pass start.
TermFair ==
    /\ WF_vars(TermPassStep)
    /\ \A u \in Users : WF_vars(TermResyncStep(u))
    /\ WF_vars(TermTickStep)

TermSpec == Init /\ [][TermNext]_vars /\ TermFair

\* ------------------------------------------------------------------- C34
\* C34: every call returning, a pass that has started is over after finitely
\* many steps, so is a channel goroutine, and so is the user loop of a tick,
\* which takes no user it has taken before in the same tick.
C34_Termination ==
    /\ (pass.pc # "idle") ~> (pass.pc = "idle")
    /\ \A u \in Users : (resync[u].pc # "idle") ~> (resync[u].pc = "idle")
    /\ (tick.pc # "wait") ~> (tick.pc = "wait")
    /\ [][(tick.pc = "user" /\ tick.todo # <<>> /\ tick' # tick) =>
              /\ Head(tick.todo) \notin tickLog.ran \cup tickLog.failed
              /\ Head(tick.todo) \notin Range(tick'.todo)]_vars

C34_Witness ==
    /\ tick.pc = "user" /\ tick.todo = <<>>
    /\ tickLog.listed = Users
    /\ tickLog.ran \cup tickLog.failed = Users
    /\ tickLog.ran # {}


\* =========================================================================
\* Two passes of one user. autoSyncUser is called by the startup goroutine
\* (main.go:215) and by the periodic goroutine (main.go:261) with nothing
\* between them; the pass of the startup goroutine is followed here from its
\* GetState request to the save of the answer.

\* main.go:60-82, the history loop as a whole: the messages of every dialog
\* are fetched and saved under u.
RECURSIVE SaveHistories(_, _, _)
SaveHistories(tbl, u, dialogs) ==
    IF dialogs = <<>> THEN tbl
    ELSE LET d == Head(dialogs)
             got == GetMessagesWithConvInfo(u, d.id, HistoryLimit, d.type, d.access_hash,
                                            <<TRUE>>)
         IN  SaveHistories(SaveEach(tbl, WithUser(got.msgs, u), {}), u, Tail(dialogs))

\* main.go:31-85 by the startup goroutine: autoSyncUser(u) finds a zero stored
\* state, lists the dialogs, saves them and their messages, and receives the
\* answer of GetState (ok: the request succeeded).
StartupBootFetch(u) ==
    /\ startup.pc = "init"
    /\ IsInitialSync(GetUpdatesState(updates_state, u))
    /\ LET dialogs == [j \in DOMAIN GetDialogs(u) |-> [GetDialogs(u)[j] EXCEPT !.user_id = u]]
       IN  /\ conversations' = SaveEachConversation(conversations, dialogs, {})
           /\ messages' = SaveHistories(messages, u, dialogs)
    /\ \E netOk \in BOOLEAN :
         startup' = [pc |-> "state", user |-> u, ok |-> netOk, state |-> RemoteState(u)]
    /\ last' = NoteOther
    /\ UNCHANGED <<now, priv, chan, updates_state, pass, resync, client, runner, dying,
                   inConnect, authAcct, active, synced, chanOwner, saved, tick, api,
                   chanTask, tickLog, requests>>

\* main.go:86-92 by the startup goroutine: the state received is saved, unless
\* the request failed.
StartupBootSave ==
    /\ startup.pc = "state"
    /\ updates_state' = IF startup.ok
                          THEN SaveUpdatesState(updates_state, startup.user, startup.state)
                          ELSE updates_state
    /\ startup' = [pc |-> "done", user |-> startup.user]
    /\ last' = NoteOther
    /\ UNCHANGED <<now, priv, chan, messages, conversations, pass, resync, client, runner,
                   dying, inConnect, authAcct, active, synced, chanOwner, saved, tick, api,
                   chanTask, tickLog, requests>>

OverlapNext ==
    \/ PassNext({"A"}, OverlapRemote, 0)
    \/ StartupBootFetch("A")
    \/ StartupBootSave

OverlapSpec == Init /\ [][OverlapNext]_vars

\* ------------------------------------------------------------------- C35
\* C35: when the pass of the startup goroutine saves the state it received,
\* the stored pts and date of the user do not go down: the state it writes was
\* not received before the one it writes over.
C35_NoStaleCursor ==
    [][(startup.pc = "state" /\ startup'.pc = "done") =>
          /\ updates_state'[startup.user].pts >= updates_state[startup.user].pts
          /\ updates_state'[startup.user].date >= updates_state[startup.user].date]_vars


\* ------------------------------------------------------------------- C36
\* C36: whenever the client.Run goroutine of the connection Connect created
\* last is up, isConnected is true.
C36_FlagOfCurrentConnection == runner = "up" => client.isConnected


\* ------------------------------------------------------------------- C37
\* C37: every stored message has a stored conversation of its conversation id
\* that belongs to the message's user.
C37_MessageHasConversation ==
    \A r \in BagToSet(messages) :
        \E c \in conversations : c.id = r.conversation_id /\ c.user_id = r.user_id


\* ------------------------------------------------------------------- C38
\* C38: every stored conversation and every stored message carries the id of
\* a user; none is stored under user id zero.
C38_RowsOfStoredUsers ==
    /\ \A c \in conversations : c.user_id \in Users
    /\ \A r \in BagToSet(messages) : r.user_id \in Users


\* ------------------------------------------------------------------- C39
\* C39: a step that starts a tick (the users are read and the user loop is at
\* its beginning) is taken when the periodic goroutine waits for the ticker:
\* the user loop of the tick before has returned, no user of it is left and
\* no pass of it is in flight.
C39_TicksDoNotOverlap ==
    [][(tick' # tick /\ tick'.pc = "user" /\ tick'.cur = NoUser) =>
          /\ tick.pc = "wait"
          /\ tick.todo = <<>>
          /\ tickLog.listed = {} /\ tickLog.ran = {}]_vars

\* C39's case: a tick starts after a tick that ran a pass.
C39_Witness ==
    /\ tick.pc = "user" /\ tick.cur = NoUser /\ tick.todo # <<>>
    /\ \E u \in Users : synced[u]


\* ------------------------------------------------------------------- C40
\* C40: a step of a pass of user b or of its channel goroutine leaves the
\* stored cursor of every other user as it is; the stored cursor an
\* incremental pass of b found is the row of b; and a step of a channel
\* goroutine leaves every stored cursor as it is.
C40_CursorFrame ==
    [][/\ \A a, b \in Users :
            (a # b /\ StepOf(b)) => updates_state'[a] = updates_state[a]
       /\ (last'.op = "incremental" /\ last' # last) =>
              last'.before = updates_state[last'.user]
       /\ \A u \in Users :
            (resync[u].pc # "idle" /\ resync'[u] # resync[u]) =>
                updates_state' = updates_state]_vars

\* C40's case: a pass of A has just written A's cursor while B has a cursor
\* of its own, and the two differ.
C40_Witness ==
    /\ last.op \in {"state", "incremental"} /\ last.user = "A"
    /\ updates_state["A"] # ZeroState
    /\ updates_state["B"] # ZeroState
    /\ updates_state["A"] # updates_state["B"]

=============================================================================
